---------------------------- MODULE Spec2Model ----------------------------
(***************************************************************************)
(* TSMT$DataStats (src/src/DataStats.ts): one statistics engine holding a  *)
(* private copy of a numeric sample, six cached statistics and their six   *)
(* invalidation flags.                                                     *)
(*                                                                         *)
(* Numbers.  A JavaScript number is modelled as an exact rational <<n, d>> *)
(* in lowest terms with d >= 1.  The samples of the model are drawn from   *)
(* small dyadic values, for which the sums of the code are exact in        *)
(* double arithmetic; a quotient (a mean, a variance) is kept exact        *)
(* instead of rounded to 53 bits.  A square root that is not rational is   *)
(* kept as a surd (see Math_sqrt).  Signed zero is not distinguished       *)
(* (-0 == 0 in JavaScript).                                                *)
(*                                                                         *)
(* Arrays.  An array is an object on a heap, named by a reference; a       *)
(* caller's arrays live in the cells "x" and "y", the array the engine     *)
(* allocates with slice() in the cells "tmp" and "own".                    *)
(***************************************************************************)
EXTENDS Integers, Sequences, FiniteSets, TLC

(***************************************************************************)
(* Bounds of the model                                                     *)
(***************************************************************************)
\* longest array a caller passes
MaxLen == 2
\* longest sample of a caller of the summaries
MaxSample == 4
\* most rows, and most columns, of a matrix a caller passes
MaxRows == 2

(***************************************************************************)
(* Rational arithmetic                                                     *)
(***************************************************************************)
Abs(a) == IF a < 0 THEN -a ELSE a

RECURSIVE GCD(_, _)
GCD(a, b) == IF b = 0 THEN a ELSE GCD(b, a % b)

\* the rational n/d (d # 0) in lowest terms with a positive denominator
R(n, d) ==
  LET g == GCD(Abs(n), Abs(d))
      s == IF d < 0 THEN -1 ELSE 1
  IN  <<(s * n) \div g, (s * d) \div g>>

Zero == <<0, 1>>
One  == <<1, 1>>
Half == <<1, 2>>

Add(a, b) == R(a[1] * b[2] + b[1] * a[2], a[2] * b[2])
Sub(a, b) == R(a[1] * b[2] - b[1] * a[2], a[2] * b[2])
Mul(a, b) == R(a[1] * b[1], a[2] * b[2])
\* a / b for b # 0
Div(a, b) == R(a[1] * b[2], a[2] * b[1])
Lt(a, b)  == a[1] * b[2] < b[1] * a[2]
Gt(a, b)  == Lt(b, a)
Le(a, b)  == ~Lt(b, a)

\* Number.MAX_VALUE: above every value of the model
MAX_VALUE == <<1000000, 1>>
\* Number.MIN_VALUE: the smallest POSITIVE double, below every positive
\* value of the model and above 0 and every negative value
MIN_VALUE == <<1, 1000000>>

(***************************************************************************)
(* Array helpers of the JavaScript runtime                                 *)
(***************************************************************************)
\* Array.prototype.slice(): elements from..to-1 (0-based, to exclusive)
slice(a, from, to) == [k \in 1..(to - from) |-> a[from + k]]

\* one element inserted into an ascending sequence, after its equals
RECURSIVE Insert(_, _)
Insert(s, v) ==
  IF s = <<>> THEN <<v>>
  ELSE IF Lt(v, Head(s)) THEN <<v>> \o s
  ELSE <<Head(s)>> \o Insert(Tail(s), v)

\* Array.prototype.sort(function(a, b){return a-b}): ascending
RECURSIVE sort(_)
sort(a) == IF a = <<>> THEN <<>> ELSE Insert(sort(SubSeq(a, 1, Len(a) - 1)), a[Len(a)])

\* isEven(n): (n & 1) == 0
isEven(n) == n % 2 = 0

(***************************************************************************)
(* Number.prototype.toString() and parseInt().  A decimal string is kept   *)
(* as its parts: the sign, the digits before the point (as a natural) and  *)
(* the fraction after the point (a rational in [0, 1)).                    *)
(***************************************************************************)
toString(v) ==
  LET a == Abs(v[1])
  IN  [neg |-> v[1] < 0, int |-> a \div v[2], frac |-> R(a % v[2], v[2])]

\* parseInt(s): the sign and the digits up to the first non-digit
parseInt(s) == IF s.neg THEN <<-(s.int), 1>> ELSE <<s.int, 1>>

\* an "array index" property name: a canonical non-negative integer; an
\* object enumerates these first, in ascending numeric order, and the other
\* string keys after them in insertion order
IsIndexKey(s) == ~s.neg /\ s.frac = Zero


\* Math.sqrt(r) for a rational r >= 0: the exact root when r is the square of
\* a rational, and otherwise the surd <<n, d, 2>>, which stands for (n/d)^(1/2)
Math_sqrt(r) ==
  IF (\E p \in 0..r[1] : p * p = r[1]) /\ (\E q \in 1..r[2] : q * q = r[2])
  THEN <<CHOOSE p \in 0..r[1] : p * p = r[1], CHOOSE q \in 1..r[2] : q * q = r[2]>>
  ELSE <<r[1], r[2], 2>>

\* the square of a value Math_sqrt returned
Square(v) == IF Len(v) = 3 THEN <<v[1], v[2]>> ELSE Mul(v, v)

(***************************************************************************)
(* Numbers that are not finite.  NaN is <<0, 0>>, Infinity <<1, 0>> and    *)
(* -Infinity <<-1, 0>>; the value undefined, where a number is expected    *)
(* (an argument not passed, an index an array does not have), is <<>>.     *)
(* The operators below are +, -, *, / and < of the language on these and   *)
(* on the rationals; 0 divides as the zero of positive sign.               *)
(***************************************************************************)
NaN == <<0, 0>>
Infinity == <<1, 0>>
missing == <<>>

\* the conversion of a value to a number: undefined becomes NaN
ToNumber(v) == IF v = missing THEN NaN ELSE v
isNaN(v) == ToNumber(v) = NaN

Sign(v) == IF v[1] > 0 THEN 1 ELSE IF v[1] < 0 THEN -1 ELSE 0
Neg(v) == <<-(v[1]), v[2]>>

PlusNum(a, b) ==
  IF a = NaN \/ b = NaN THEN NaN
  ELSE IF a[2] = 0 /\ b[2] = 0 THEN (IF a = b THEN a ELSE NaN)
  ELSE IF a[2] = 0 THEN a
  ELSE IF b[2] = 0 THEN b
  ELSE Add(a, b)
Plus(a, b) == PlusNum(ToNumber(a), ToNumber(b))
Minus(a, b) == PlusNum(ToNumber(a), Neg(ToNumber(b)))

TimesNum(a, b) ==
  IF a = NaN \/ b = NaN THEN NaN
  ELSE IF a[2] = 0 \/ b[2] = 0
  THEN (IF Sign(a) * Sign(b) = 0 THEN NaN ELSE <<Sign(a) * Sign(b), 0>>)
  ELSE Mul(a, b)
Times(a, b) == TimesNum(ToNumber(a), ToNumber(b))

OverNum(a, b) ==
  IF a = NaN \/ b = NaN THEN NaN
  ELSE IF a[2] = 0 /\ b[2] = 0 THEN NaN
  ELSE IF a[2] = 0 THEN (IF Sign(b) < 0 THEN Neg(a) ELSE a)
  ELSE IF b[2] = 0 THEN Zero
  ELSE IF b = Zero THEN (IF a = Zero THEN NaN ELSE <<Sign(a), 0>>)
  ELSE Div(a, b)
Over(a, b) == OverNum(ToNumber(a), ToNumber(b))

LessNum(a, b) ==
  IF a = NaN \/ b = NaN THEN FALSE
  ELSE IF a[2] = 0 /\ b[2] = 0 THEN a[1] < b[1]
  ELSE Lt(a, b)
Less(a, b) == LessNum(ToNumber(a), ToNumber(b))

\* Math.abs and Math.floor
Math_abs(v) == IF ToNumber(v) = NaN THEN NaN ELSE <<Abs(v[1]), v[2]>>
Math_floor(v) == IF ToNumber(v)[2] = 0 THEN ToNumber(v) ELSE <<v[1] \div v[2], 1>>

\* a[i] for a 0-based index i: undefined outside the array
At(a, i) == IF i + 1 \in 1..Len(a) THEN a[i + 1] ELSE missing
\* a[i] = v for a 0-based index i: the array grows, with holes, up to i
SetAt(a, i, v) ==
  [k \in 1..(IF i + 1 > Len(a) THEN i + 1 ELSE Len(a)) |->
     IF k = i + 1 THEN v ELSE IF k <= Len(a) THEN a[k] ELSE missing]

(***************************************************************************)
(* The engine.  `this` is the object: _data is the reference of its array, *)
(* the other fields are as declared in the class.  Every method is an      *)
(* operator from the object t and the heap h to the object and heap it     *)
(* leaves and the value it returns (val, a sequence: <<>> is void, <<v>> a *)
(* number).                                                                *)
(***************************************************************************)
Refs == {"own", "tmp", "x", "y"}
undefined == "undefined"
null == "null"

Result(t, h, val) == [this |-> t, heap |-> h, val |-> val]

\* constructor()
constructor ==
  [_data |-> "own",
   _mean |-> Zero, _std |-> Zero, _median |-> Zero, _mode |-> Zero,
   _min |-> Zero, _max |-> Zero,
   _minInvalidated |-> TRUE, _maxInvalidated |-> TRUE, _meanInvalidated |-> TRUE,
   _stdInvalidated |-> TRUE, _medianInvalidated |-> TRUE, _modeInvalidated |-> TRUE]

\* the heap after construction: new Array<number>(0), and no other array
NewHeap == [r \in Refs |-> <<>>]

\* set data() that forgets to invalidate the mean
set_data_keepsMean(t, h, dataProvider) ==
  IF dataProvider = undefined \/ dataProvider = null
  THEN Result(t, h, <<>>)
  ELSE IF Len(h[dataProvider]) = 0
  THEN Result(t, h, <<>>)
  ELSE Result([t EXCEPT !._data = "own",
                        !._minInvalidated = TRUE, !._maxInvalidated = TRUE,
                        !._stdInvalidated = TRUE,
                        !._medianInvalidated = TRUE, !._modeInvalidated = TRUE],
              [h EXCEPT !["own"] = slice(h[dataProvider], 0, Len(h[dataProvider]))],
              <<>>)

\* set data() that forgets to invalidate the mode
set_data_keepsMode(t, h, dataProvider) ==
  IF dataProvider = undefined \/ dataProvider = null
  THEN Result(t, h, <<>>)
  ELSE IF Len(h[dataProvider]) = 0
  THEN Result(t, h, <<>>)
  ELSE Result([t EXCEPT !._data = "own",
                        !._minInvalidated = TRUE, !._maxInvalidated = TRUE,
                        !._meanInvalidated = TRUE, !._stdInvalidated = TRUE,
                        !._medianInvalidated = TRUE],
              [h EXCEPT !["own"] = slice(h[dataProvider], 0, Len(h[dataProvider]))],
              <<>>)

\* set data() without the test of the length: an empty array is assigned
set_data_acceptsEmpty(t, h, dataProvider) ==
  IF dataProvider = undefined \/ dataProvider = null
  THEN Result(t, h, <<>>)
  ELSE Result([t EXCEPT !._data = "own",
                        !._minInvalidated = TRUE, !._maxInvalidated = TRUE,
                        !._meanInvalidated = TRUE, !._stdInvalidated = TRUE,
                        !._medianInvalidated = TRUE, !._modeInvalidated = TRUE],
              [h EXCEPT !["own"] = slice(h[dataProvider], 0, Len(h[dataProvider]))],
              <<>>)

\* set data() without the slice(): this._data = dataProvider
set_data_aliases(t, h, dataProvider) ==
  IF dataProvider = undefined \/ dataProvider = null
  THEN Result(t, h, <<>>)
  ELSE IF Len(h[dataProvider]) = 0
  THEN Result(t, h, <<>>)
  ELSE Result([t EXCEPT !._data = dataProvider,
                        !._minInvalidated = TRUE, !._maxInvalidated = TRUE,
                        !._meanInvalidated = TRUE, !._stdInvalidated = TRUE,
                        !._medianInvalidated = TRUE, !._modeInvalidated = TRUE],
              h,
              <<>>)

\* set data(dataProvider): dataProvider is undefined, null or a reference
set_data(t, h, dataProvider) ==
  IF dataProvider = undefined \/ dataProvider = null
  THEN Result(t, h, <<>>)
  ELSE IF Len(h[dataProvider]) = 0
  THEN Result(t, h, <<>>)
  ELSE Result([t EXCEPT !._data = "own",
                        !._minInvalidated = TRUE, !._maxInvalidated = TRUE,
                        !._meanInvalidated = TRUE, !._stdInvalidated = TRUE,
                        !._medianInvalidated = TRUE, !._modeInvalidated = TRUE],
              [h EXCEPT !["own"] = slice(h[dataProvider], 0, Len(h[dataProvider]))],
              <<>>)

\* get samples()
samples(t, h) == Result(t, h, <<<<Len(h[t._data]), 1>>>>)

\* the scan of get min(): for (i = 0; i < n; ++i) if (_data[i] < min) min = _data[i]
RECURSIVE minScan(_, _, _)
minScan(d, i, m) ==
  IF i > Len(d) THEN m ELSE minScan(d, i + 1, IF Lt(d[i], m) THEN d[i] ELSE m)

\* get min() without the test of the length: the scan of no element
min_noEmptyGuard(t, h) ==
  LET d == h[t._data]
  IN  IF t._minInvalidated
      THEN LET m == minScan(d, 1, MAX_VALUE)
           IN  Result([t EXCEPT !._min = m], h, <<m>>)
      ELSE Result(t, h, <<t._min>>)

\* get min(): the flag is read and never cleared
min(t, h) ==
  LET d == h[t._data]
  IN  IF Len(d) = 0 THEN Result(t, h, <<Zero>>)
      ELSE IF t._minInvalidated
      THEN LET m == minScan(d, 1, MAX_VALUE)
           IN  Result([t EXCEPT !._min = m], h, <<m>>)
      ELSE Result(t, h, <<t._min>>)

\* the scan of get max(): for (i = 0; i < n; ++i) if (_data[i] > max) max = _data[i]
RECURSIVE maxScan(_, _, _)
maxScan(d, i, m) ==
  IF i > Len(d) THEN m ELSE maxScan(d, i + 1, IF Gt(d[i], m) THEN d[i] ELSE m)

\* get max(): the scan starts from Number.MIN_VALUE; the flag is never cleared
max(t, h) ==
  LET d == h[t._data]
  IN  IF Len(d) = 0 THEN Result(t, h, <<Zero>>)
      ELSE IF t._maxInvalidated
      THEN LET m == maxScan(d, 1, MIN_VALUE)
           IN  Result([t EXCEPT !._max = m], h, <<m>>)
      ELSE Result(t, h, <<t._max>>)

\* the median rule without the 0.5 of the even case
medianOfSorted_noHalf(a) ==
  LET n == Len(a)
  IN  IF isEven(n)
      THEN Add(a[n \div 2], a[n \div 2 + 1])
      ELSE a[(n + 1) \div 2]

\* the even/odd median rule on an ascending array of n >= 1 elements
\* (0-based m = n/2 - 1, or (n+1)/2 - 1)
medianOfSorted(a) ==
  LET n == Len(a)
  IN  IF isEven(n)
      THEN Mul(Half, Add(a[n \div 2], a[n \div 2 + 1]))
      ELSE a[(n + 1) \div 2]

\* get fiveNumbers() whose halves leave the median out when n is odd
fiveNumbers_disjointOdd(t, h) ==
  LET d == h[t._data]
      n == Len(d)
  IN  IF n = 0 THEN Result(t, h, <<>>)
      ELSE IF n = 1 THEN Result(t, h, <<d[1], d[1], d[1], d[1], d[1]>>)
      ELSE LET data    == sort(slice(d, 0, n))
               dataMin == data[1]
               dataMax == data[n]
               m       == IF isEven(n) THEN n \div 2 - 1 ELSE (n + 1) \div 2 - 1
               dataMed == IF isEven(n) THEN Mul(Half, Add(data[m + 1], data[m + 2]))
                                       ELSE data[m + 1]
               lower   == IF isEven(n) THEN slice(data, 0, m + 1)
                                       ELSE slice(data, 0, m)
               upper   == slice(data, m + 1, n)
           IN  Result(t, h, <<dataMin, medianOfSorted(lower), dataMed,
                              medianOfSorted(upper), dataMax>>)

\* get fiveNumbers()
fiveNumbers(t, h) ==
  LET d == h[t._data]
      n == Len(d)
  IN  IF n = 0 THEN Result(t, h, <<>>)
      ELSE IF n = 1 THEN Result(t, h, <<d[1], d[1], d[1], d[1], d[1]>>)
      ELSE LET data    == sort(slice(d, 0, n))
               dataMin == data[1]
               dataMax == data[n]
               m       == IF isEven(n) THEN n \div 2 - 1 ELSE (n + 1) \div 2 - 1
               dataMed == IF isEven(n) THEN Mul(Half, Add(data[m + 1], data[m + 2]))
                                       ELSE data[m + 1]
               lower   == IF isEven(n) THEN slice(data, 0, m + 1)
                                       ELSE Append(slice(data, 0, m), dataMed)
               upper   == IF isEven(n) THEN slice(data, m + 1, n)
                                       ELSE <<dataMed>> \o slice(data, m + 1, n)
           IN  Result(t, h, <<dataMin, medianOfSorted(lower), dataMed,
                              medianOfSorted(upper), dataMax>>)

\* the fraction of getQuantile() without the test _p > 0.99
fraction_noUpper(_p) ==
  IF isNaN(_p) \/ Less(_p, <<1, 100>>) THEN <<1, 4>> ELSE _p

\* the fraction getQuantile(_p) works with:
\* isNaN(_p) || _p < 0.01 || _p > 0.99 ? 0.25 : _p
fraction(_p) ==
  IF isNaN(_p) \/ Less(_p, <<1, 100>>) \/ Less(<<99, 100>>, _p) THEN <<1, 4>> ELSE _p

\* the array f of getQuantile(): new Array<number>(0.0) is an array of length
\* 0 (not the array [0.0]), so f[0] is never written; the loop writes
\* f[i] = f[i-1] + n1 for i = 1..n-2 and push(1.0) appends at f.length
RECURSIVE fLoop(_, _, _, _)
fLoop(f, i, n, n1) ==
  IF i >= n - 1 THEN f
  ELSE fLoop(SetAt(f, i, Plus(At(f, i - 1), n1)), i + 1, n, n1)

fractions(n) == Append(fLoop(<<>>, 1, n, Over(One, <<n - 1, 1>>)), One)

\* the entry the loop of getQuantile() pushes in its pass i (0-based): q is
\* p added i + 1 times to 0.0
quantile(data, f, p, i) ==
  LET q  == Times(<<i + 1, 1>>, p)
      r  == Math_floor(Times(q, <<Len(data) - 1, 1>>))[1]
      t  == Over(Minus(q, At(f, r)), Minus(At(f, r + 1), At(f, r)))
      interp == Plus(Times(Minus(One, t), At(data, r)), Times(t, At(data, r + 1)))
  IN  IF Less(Math_abs(Minus(At(f, r), q)), <<1, 1000>>) THEN At(data, r) ELSE interp

\* the loop of getQuantile() with one pass too many
quantLoop_onePassMore(data, f, p, nQuant) ==
  [k \in 1..nQuant |-> quantile(data, f, p, k - 1)]

\* the loop of getQuantile(): for (i = 0; i < nQuant-1; ++i), the entries in
\* the order pushed
quantLoop(data, f, p, nQuant) ==
  [k \in 1..(nQuant - 1) |-> quantile(data, f, p, k - 1)]

\* getQuantile(_p)
getQuantile(t, h, _p) ==
  LET d == h[t._data]
      n == Len(d)
      p == fraction(_p)
      nQuant == Math_floor(Over(One, p))[1]
  IN  IF n < 2 THEN Result(t, h, <<>>)
      ELSE LET data == sort(slice(d, 0, n))
           IN  Result(t, h,
                 Append(<<data[1]>> \o quantLoop(data, fractions(n), p, nQuant),
                        data[Len(data)]))

\* the sum of get mean(): s = _data[0]; for (i = 1; i < n; ++i) s += _data[i]
RECURSIVE sumFrom(_, _, _)
sumFrom(d, i, s) == IF i > Len(d) THEN s ELSE sumFrom(d, i + 1, Add(s, d[i]))

\* get mean()
mean(t, h) ==
  LET d == h[t._data]
      n == Len(d)
  IN  IF t._meanInvalidated
      THEN IF n = 0 THEN Result(t, h, <<Zero>>)
           ELSE LET u == Div(sumFrom(d, 2, d[1]), <<n, 1>>)
                IN  Result([t EXCEPT !._mean = u, !._meanInvalidated = FALSE], h, <<u>>)
      ELSE Result(t, h, <<t._mean>>)

\* Welford's recurrence of get std(): i is the 1-based place of the next
\* element, m the running mean, s the running sum of squared deviations
RECURSIVE welford(_, _, _, _)
welford(d, i, m, s) ==
  IF i > Len(d) THEN s
  ELSE LET m_old == m
           dd    == Sub(d[i], m_old)
           m_new == Add(m, Div(dd, <<i, 1>>))
       IN  welford(d, i + 1, m_new, Add(s, Mul(Sub(d[i], m_new), dd)))

\* get std(): n == 1 returns 0 and leaves the field and the flag alone; n == 0
\* falls through to Math.sqrt(0/(-1))
std(t, h) ==
  LET d == h[t._data]
      n == Len(d)
  IN  IF t._stdInvalidated
      THEN IF n = 1 THEN Result(t, h, <<Zero>>)
           ELSE LET sd == Math_sqrt(Div(welford(d, 1, Zero, Zero), <<n - 1, 1>>))
                IN  Result([t EXCEPT !._std = sd, !._stdInvalidated = FALSE], h, <<sd>>)
      ELSE Result(t, h, <<t._std>>)

\* get median() that sorts this._data itself, not a copy
median_sortsInPlace(t, h) ==
  LET d == h[t._data]
      n == Len(d)
  IN  IF t._medianInvalidated
      THEN IF n = 0 THEN Result(t, h, <<Zero>>)
           ELSE LET md == medianOfSorted(sort(d))
                IN  Result([t EXCEPT !._median = md, !._medianInvalidated = FALSE],
                           [h EXCEPT ![t._data] = sort(d)], <<md>>)
      ELSE Result(t, h, <<t._median>>)

\* get median()
median(t, h) ==
  LET d == h[t._data]
      n == Len(d)
  IN  IF t._medianInvalidated
      THEN IF n = 0 THEN Result(t, h, <<Zero>>)
           ELSE LET md == medianOfSorted(sort(slice(d, 0, n)))
                IN  Result([t EXCEPT !._median = md, !._medianInvalidated = FALSE], h, <<md>>)
      ELSE Result(t, h, <<t._median>>)

\* the counting loop of get mode(): hash is the object's own properties in
\* insertion order, each a key (the stringified number) and its count
RECURSIVE hashCount(_, _, _)
hashCount(d, i, hash) ==
  IF i > Len(d) THEN hash
  ELSE LET x == toString(d[i])
       IN  IF \E j \in 1..Len(hash) : hash[j].key = x
           THEN hashCount(d, i + 1,
                  [j \in 1..Len(hash) |->
                     IF hash[j].key = x
                     THEN [key |-> x, count |-> hash[j].count + 1] ELSE hash[j]])
           ELSE hashCount(d, i + 1, Append(hash, [key |-> x, count |-> 1]))

\* index-like properties in ascending numeric order
RECURSIVE InsertKey(_, _)
InsertKey(s, e) ==
  IF s = <<>> THEN <<e>>
  ELSE IF e.key.int < Head(s).key.int THEN <<e>> \o s
  ELSE <<Head(s)>> \o InsertKey(Tail(s), e)

RECURSIVE sortKeys(_)
sortKeys(s) ==
  IF s = <<>> THEN <<>> ELSE InsertKey(sortKeys(SubSeq(s, 1, Len(s) - 1)), s[Len(s)])

\* for (value in hash): the order in which the properties are visited
forIn(hash) ==
  sortKeys(SelectSeq(hash, LAMBDA e : IsIndexKey(e.key)))
    \o SelectSeq(hash, LAMBDA e : ~IsIndexKey(e.key))

\* the selection loop of get mode(): if (hash[value] > count) take it
RECURSIVE modeScan(_, _, _, _)
modeScan(props, i, count, md) ==
  IF i > Len(props) THEN md
  ELSE IF props[i].count > count
  THEN modeScan(props, i + 1, props[i].count, parseInt(props[i].key))
  ELSE modeScan(props, i + 1, count, md)

\* get mode()
mode(t, h) ==
  LET d == h[t._data]
      n == Len(d)
  IN  IF t._modeInvalidated
      THEN IF n = 0 THEN Result(t, h, <<Zero>>)
           ELSE LET md == modeScan(forIn(hashCount(d, 1, <<>>)), 1, -1, t._mode)
                IN  Result([t EXCEPT !._mode = md, !._modeInvalidated = FALSE], h, <<md>>)
      ELSE Result(t, h, <<t._mode>>)

\* a value named once and used in what follows, as a const of the code
Const(v, F(_)) == F(v)

\* get fences(): {lower, upper} as the pair <<lower, upper>>
fences(t, h) ==
  LET num == fiveNumbers(t, h).val
      q1  == At(num, 1)
      q3  == At(num, 3)
      iqr == Minus(q3, q1)
  IN  Result(t, h, <<Minus(q1, Times(<<3, 2>>, iqr)), Plus(q3, Times(<<3, 2>>, iqr))>>)

\* the product of get geometricMean(): s = _data[0]; for (i = 1; i < n; ++i) s *= _data[i]
RECURSIVE prodFrom(_, _, _)
prodFrom(d, i, s) == IF i > Len(d) THEN s ELSE prodFrom(d, i + 1, Mul(s, d[i]))

RECURSIVE Power(_, _)
Power(b, k) == IF k = 0 THEN 1 ELSE b * Power(b, k - 1)

\* Math.pow(s, 1/n) for a rational s and n >= 1: s itself for n = 1, NaN for
\* a negative s, the exact root when s is an n-th power of a rational, and
\* otherwise <<num, den, n>>, which stands for (num/den)^(1/n)
Math_pow(s, n) ==
  IF n = 1 THEN s
  ELSE IF s[1] < 0 THEN NaN
  ELSE IF (\E a \in 0..s[1] : Power(a, n) = s[1]) /\ (\E b \in 1..s[2] : Power(b, n) = s[2])
  THEN <<CHOOSE a \in 0..s[1] : Power(a, n) = s[1], CHOOSE b \in 1..s[2] : Power(b, n) = s[2]>>
  ELSE <<s[1], s[2], n>>

\* get geometricMean()
geometricMean(t, h) ==
  LET d == h[t._data]
      n == Len(d)
  IN  IF n = 0 THEN Result(t, h, <<Zero>>)
      ELSE Result(t, h, <<Math_pow(prodFrom(d, 2, d[1]), n)>>)

\* Math.abs(v) > 0.000000001 ? 1/v : 0
reciprocal(v) == IF Less(<<1, 1000000000>>, Math_abs(v)) THEN Over(One, v) ELSE Zero

\* the sum of get harmonicMean()
RECURSIVE recipFrom(_, _, _)
recipFrom(d, i, s) == IF i > Len(d) THEN s ELSE recipFrom(d, i + 1, Plus(s, reciprocal(d[i])))

\* get harmonicMean()
harmonicMean(t, h) ==
  LET d == h[t._data]
      n == Len(d)
  IN  IF n = 0 THEN Result(t, h, <<Zero>>)
      ELSE Result(t, h, <<Over(<<n, 1>>, recipFrom(d, 2, reciprocal(d[1])))>>)

\* the product of a value v that Math_sqrt returned and a number c; a surd
\* of negative numerator <<-n, d, 2>> stands for -(n/d)^(1/2)
ScaleRoot(v, c) ==
  IF Len(v) = 2 THEN Times(v, c)
  ELSE IF c[2] = 0 THEN c
  ELSE IF c = Zero THEN Zero
  ELSE <<Sign(c) * Mul(<<v[1], v[2]>>, Mul(c, c))[1], Mul(<<v[1], v[2]>>, Mul(c, c))[2], 2>>

\* get cv(): (s/m)*100 with s = this.std taken first and m = this.mean second
cv(t, h) ==
  Const(std(t, h), LAMBDA s :
  Const(mean(s.this, s.heap), LAMBDA m :
    Result(m.this, m.heap, <<ScaleRoot(s.val[1], Over(<<100, 1>>, m.val[1]))>>)))

\* the loops of skewness and kurtosis: s1 += z^k with z = _data[i] - u
RECURSIVE powSum(_, _, _, _, _)
powSum(d, u, k, i, s1) ==
  IF i > Len(d) THEN s1
  ELSE LET z == Sub(d[i], u)
       IN  powSum(d, u, k, i + 1,
                  Add(s1, IF k = 3 THEN Mul(z, Mul(z, z)) ELSE Mul(Mul(z, z), Mul(z, z))))

\* get skewness(): mult*skew with mult = Math.sqrt(n*(n-1))/(n-2) and
\* skew = (s1/n)/(s*s*s); the roots are gathered in one,
\* ((s1/n)/((n-2)*s*s)) * (n*(n-1)/(s*s))^(1/2), when s is not 0
skewness(t, h) ==
  LET d == h[t._data]
      n == Len(d)
  IN  IF n < 3 THEN Result(t, h, <<Zero>>)
      ELSE Const(mean(t, h), LAMBDA u :
           Const(std(u.this, u.heap), LAMBDA s :
             LET s1 == powSum(d, u.val[1], 3, 1, Zero)
                 ss == Square(s.val[1])
             IN  Result(s.this, s.heap,
                   <<IF ss = Zero
                     THEN ScaleRoot(Math_sqrt(<<n * (n - 1), 1>>),
                                    Over(Over(Over(s1, <<n, 1>>), Zero), <<n - 2, 1>>))
                     ELSE ScaleRoot(Math_sqrt(Div(<<n * (n - 1), 1>>, ss)),
                                    Over(Over(s1, <<n, 1>>), Mul(<<n - 2, 1>>, ss)))>>)))

\* get kurtosis()
kurtosis(t, h) ==
  LET d == h[t._data]
      n == Len(d)
  IN  IF n < 4 THEN Result(t, h, <<Zero>>)
      ELSE Const(mean(t, h), LAMBDA u :
           Const(std(u.this, u.heap), LAMBDA s :
             LET s1 == powSum(d, u.val[1], 4, 1, Zero)
                 ss == Square(s.val[1])
                 a  == Over(Mul(<<n * (n + 1), 1>>, s1),
                            Mul(<<(n - 1) * (n - 2) * (n - 3), 1>>, Mul(ss, ss)))
                 b  == Div(<<3 * (n - 1) * (n - 1), 1>>, <<(n - 2) * (n - 3), 1>>)
             IN  Result(s.this, s.heap, <<Minus(a, b)>>)))

\* the confidence factor of getConfidenceInterval(_t):
\* isNaN(_t) ? 0.9 : _t, then Math.max(0.01, t) and Math.min(t, 0.99)
confidence(_t) ==
  LET t1 == IF isNaN(_t) THEN <<9, 10>> ELSE _t
      t2 == IF Less(t1, <<1, 100>>) THEN <<1, 100>> ELSE t1
  IN  IF Less(<<99, 100>>, t2) THEN <<99, 100>> ELSE t2

\* getConfidenceInterval(_t): {left: u-d, right: u+d} as the pair <<u, d>> of
\* the centre and the half-width d = t*s/Math.sqrt(n); s = this.std is taken
\* first and u = this.mean second
getConfidenceInterval(t, h, _t) ==
  LET n == Len(h[t._data])
  IN  IF n = 0 THEN Result(t, h, <<Zero, Zero>>)
      ELSE Const(std(t, h), LAMBDA s :
           Const(mean(s.this, s.heap), LAMBDA u :
             Result(u.this, u.heap,
                    <<u.val[1],
                      ScaleRoot(Math_sqrt(Div(Square(s.val[1]), <<n, 1>>)), confidence(_t))>>)))

\* sum = 0.0; sum += a[k] for each k in turn
RECURSIVE sumOf(_)
sumOf(a) == IF a = <<>> THEN Zero ELSE Plus(sumOf(SubSeq(a, 1, Len(a) - 1)), a[Len(a)])

\* covarianceMatrix(x): x is undefined, null or the rows of a matrix; the
\* lower triangle of the matrix is returned, row i having i entries.  The
\* method reads and writes nothing of the object.
covarianceMatrix(t, h, x) ==
  IF x.kind = undefined \/ x.kind = null THEN Result(t, h, <<>>)
  ELSE IF Len(x.rows) = 0 THEN Result(t, h, <<>>)
  ELSE LET m    == Len(x.rows)
           n    == Len(x.rows[1])
           s    == Over(One, <<m, 1>>)
           sums == [j \in 1..n |-> Times(sumOf([i \in 1..m |-> At(x.rows[i], j - 1)]), s)]
           C    == [j \in 1..n |-> [i \in 1..m |-> Minus(At(x.rows[i], j - 1), sums[j])]]
       IN  Result(t, h,
             [i \in 1..n |->
                [j \in 1..i |-> Times(sumOf([k \in 1..m |-> Times(C[i][k], C[j][k])]), s)]])

\* the loop of covariance(): s += (x[i] - xmean)*(y[i] - ymean)
RECURSIVE covSum(_, _, _, _, _, _)
covSum(xa, ya, xmean, ymean, i, s) ==
  IF i > Len(xa) THEN s
  ELSE covSum(xa, ya, xmean, ymean, i + 1,
              Add(s, Mul(Sub(xa[i], xmean), Sub(ya[i], ymean))))

\* x.slice() for the array at ref, allocated in the cell "tmp"
sliceToTmp(h, ref) == [h EXCEPT !["tmp"] = slice(h[ref], 0, Len(h[ref]))]

\* covariance() that takes the mean of y first and of x last
covariance_swapped(t, h, x, y) ==
  IF x = undefined \/ x = null \/ y = undefined \/ y = null
  THEN Result(t, h, <<Zero>>)
  ELSE IF Len(h[x]) < 2 \/ Len(h[x]) # Len(h[y])
  THEN Result(t, h, <<Zero>>)
  ELSE Const(set_data(t, sliceToTmp(h, y), "tmp"), LAMBDA a1 :
       Const(mean(a1.this, a1.heap), LAMBDA m1 :
       Const(set_data(m1.this, sliceToTmp(m1.heap, x), "tmp"), LAMBDA a2 :
       Const(mean(a2.this, a2.heap), LAMBDA m2 :
         Result(m2.this, m2.heap,
                <<Div(covSum(m2.heap[x], m2.heap[y], m2.val[1], m1.val[1], 1, Zero),
                      <<Len(h[x]) - 1, 1>>)>>)))))

\* covariance(x, y): x and y are undefined, null or references; x.slice() and
\* y.slice() are allocated in the cell "tmp" and handed to the setter
covariance(t, h, x, y) ==
  IF x = undefined \/ x = null \/ y = undefined \/ y = null
  THEN Result(t, h, <<Zero>>)
  ELSE IF Len(h[x]) < 2 \/ Len(h[x]) # Len(h[y])
  THEN Result(t, h, <<Zero>>)
  ELSE Const(set_data(t, sliceToTmp(h, x), "tmp"), LAMBDA a1 :
       Const(mean(a1.this, a1.heap), LAMBDA m1 :
       Const(set_data(m1.this, sliceToTmp(m1.heap, y), "tmp"), LAMBDA a2 :
       Const(mean(a2.this, a2.heap), LAMBDA m2 :
         Result(m2.this, m2.heap,
                <<Div(covSum(m2.heap[x], m2.heap[y], m1.val[1], m2.val[1], 1, Zero),
                      <<Len(h[x]) - 1, 1>>)>>)))))

\* correlation() whose test of the lengths has && for ||
correlation_andGuard(t, h, x, y) ==
  IF x = undefined \/ x = null \/ y = undefined \/ y = null
  THEN Result(t, h, <<Zero>>)
  ELSE IF Len(h[x]) < 2 /\ Len(h[x]) # Len(h[y])
  THEN Result(t, h, <<Zero>>)
  ELSE Const(set_data(t, h, x), LAMBDA a1 :
       Const(std(a1.this, a1.heap), LAMBDA xs :
       Const(set_data(xs.this, xs.heap, y), LAMBDA a2 :
       Const(std(a2.this, a2.heap), LAMBDA ys :
       Const(covariance(ys.this, ys.heap, x, y), LAMBDA c :
         Result(c.this, c.heap,
                <<c.val[1], Math_sqrt(Mul(Square(xs.val[1]), Square(ys.val[1])))>>))))))

\* correlation(x, y): the value returned is covariance/(xs*ys); it is kept as
\* the pair <<covariance, xs*ys>>, the quotient not carried out (it is NaN or
\* infinite when xs*ys is 0)
correlation(t, h, x, y) ==
  IF x = undefined \/ x = null \/ y = undefined \/ y = null
  THEN Result(t, h, <<Zero>>)
  ELSE IF Len(h[x]) < 2 \/ Len(h[x]) # Len(h[y])
  THEN Result(t, h, <<Zero>>)
  ELSE Const(set_data(t, h, x), LAMBDA a1 :
       Const(std(a1.this, a1.heap), LAMBDA xs :
       Const(set_data(xs.this, xs.heap, y), LAMBDA a2 :
       Const(std(a2.this, a2.heap), LAMBDA ys :
       Const(covariance(ys.this, ys.heap, x, y), LAMBDA c :
         Result(c.this, c.heap,
                <<c.val[1], Math_sqrt(Mul(Square(xs.val[1]), Square(ys.val[1])))>>))))))

(***************************************************************************)
(* The state machine: one engine and its caller                            *)
(***************************************************************************)
VARIABLES
  this,   \* the TSMT$DataStats object
  heap,   \* the array objects, by reference
  ret     \* the last call: its operation and the value it returned

vars == <<this, heap, ret>>

\* the values of a sample
Values == {<<-1, 1>>, <<2, 1>>}

\* the arrays a caller builds
Arrays == UNION {[1..n -> Values] : n \in 0..MaxLen}

\* what a caller passes where an array is expected
Inputs ==
  {[kind |-> k, elems |-> <<>>] : k \in {undefined, null}}
    \cup {[kind |-> "array", elems |-> a] : a \in Arrays}

\* one input of each shape: absent, null, and an array of each length
Shapes ==
  {[kind |-> k, elems |-> <<>>] : k \in {undefined, null}}
    \cup {[kind |-> "array", elems |-> [i \in 1..n |-> <<-1, 1>>]] : n \in 0..MaxLen}

\* the pairs a caller passes to covariance and correlation: every pair of
\* arrays of one length >= 2, and every pair of shapes
PairInputs ==
  {pq \in Inputs \X Inputs :
     \/ pq[1] \in Shapes /\ pq[2] \in Shapes
     \/ /\ pq[1].kind = "array" /\ pq[2].kind = "array"
        /\ Len(pq[1].elems) >= 2 /\ Len(pq[1].elems) = Len(pq[2].elems)}

\* the samples of a caller of the summaries: values of both signs, one of
\* them not an integer, in every order
SampleValues == {<<-1, 1>>, <<1, 2>>, <<2, 1>>}
SampleArrays == UNION {[1..n -> SampleValues] : n \in 0..MaxSample}

\* what a caller passes to getQuantile: nothing, NaN, and fractions below,
\* at the ends of, inside and above [0.01, 0.99]
Fractions ==
  {missing, NaN, <<-1, 4>>, <<0, 1>>, <<1, 200>>, <<1, 100>>, <<1, 4>>, <<3, 10>>,
   <<1, 2>>, <<99, 100>>, <<199, 200>>, <<1, 1>>}

\* what a caller passes to getConfidenceInterval
Confidences == {missing, <<0, 1>>, <<1, 2>>, <<9, 10>>, <<1, 1>>}

\* what a caller passes to covarianceMatrix: nothing, null, no row, and the
\* matrices of MaxRows rows and columns at most
Matrices ==
  {[kind |-> k, rows |-> <<>>] : k \in {undefined, null, "array"}}
    \cup {[kind |-> "array", rows |-> x] :
            x \in UNION {[1..m -> [1..n -> Values]] : m \in 1..MaxRows, n \in 1..MaxRows}}

\* the caller builds the argument p: an array goes to the caller's cell
Pass(h, cell, p) == IF p.kind = "array" THEN [h EXCEPT ![cell] = p.elems] ELSE h
\* the argument as the method receives it
Arg(p, cell) == IF p.kind = "array" THEN cell ELSE p.kind

\* arrays nothing refers to any more are dropped
Collect(h, live) == [r \in Refs |-> IF r \in live THEN h[r] ELSE <<>>]

\* A caller: keep says whether it keeps the arrays it passed after the call
\* (or drops them), log whether it records what the call returned
Recorder == [keep |-> FALSE, log |-> TRUE]
Silent   == [keep |-> FALSE, log |-> FALSE]
Holder   == [keep |-> TRUE, log |-> TRUE]

\* the arrays still referred to when a call returns to the caller c
Live(t, c) == {t._data} \cup (IF c.keep THEN {"x", "y"} ELSE {})

\* what the caller c holds of the last call
Log(c, op, val) == IF c.log THEN [op |-> op, val |-> val] ELSE ret

Init ==
  /\ this = constructor
  /\ heap = NewHeap
  /\ ret  = [op |-> "constructor", val |-> <<>>]

\* stats.data = p
AssignCall(p, c) ==
  \E r \in {set_data(this, Pass(heap, "x", p), Arg(p, "x"))} :
    /\ this' = r.this
    /\ heap' = Collect(r.heap, Live(r.this, c))
    /\ ret'  = Log(c, "data", r.val)

\* stats.covariance(px, py)
CovarianceCall(px, py, c) ==
  \E r \in {covariance(this, Pass(Pass(heap, "x", px), "y", py),
                        Arg(px, "x"), Arg(py, "y"))} :
    /\ this' = r.this
    /\ heap' = Collect(r.heap, Live(r.this, c))
    /\ ret'  = Log(c, "covariance", r.val)

\* stats.correlation(px, py)
CorrelationCall(px, py, c) ==
  \E r \in {correlation(this, Pass(Pass(heap, "x", px), "y", py),
                         Arg(px, "x"), Arg(py, "y"))} :
    /\ this' = r.this
    /\ heap' = Collect(r.heap, Live(r.this, c))
    /\ ret'  = Log(c, "correlation", r.val)

Assign(c)      == \E p \in Inputs : AssignCall(p, c)
Covariance(c)  == \E pq \in PairInputs : CovarianceCall(pq[1], pq[2], c)
Correlation(c) == \E pq \in PairInputs : CorrelationCall(pq[1], pq[2], c)

\* stats.samples
Samples(c) ==
  \E r \in {samples(this, heap)} :
    /\ this' = r.this
    /\ heap' = Collect(r.heap, Live(r.this, c))
    /\ ret'  = Log(c, "samples", r.val)

\* stats.min
Min(c) ==
  \E r \in {min(this, heap)} :
    /\ this' = r.this
    /\ heap' = Collect(r.heap, Live(r.this, c))
    /\ ret'  = Log(c, "min", r.val)

\* stats.max
Max(c) ==
  \E r \in {max(this, heap)} :
    /\ this' = r.this
    /\ heap' = Collect(r.heap, Live(r.this, c))
    /\ ret'  = Log(c, "max", r.val)

\* stats.fiveNumbers
FiveNumbers(c) ==
  \E r \in {fiveNumbers(this, heap)} :
    /\ this' = r.this
    /\ heap' = Collect(r.heap, Live(r.this, c))
    /\ ret'  = Log(c, "fiveNumbers", r.val)

\* stats.mean
Mean(c) ==
  \E r \in {mean(this, heap)} :
    /\ this' = r.this
    /\ heap' = Collect(r.heap, Live(r.this, c))
    /\ ret'  = Log(c, "mean", r.val)

\* stats.std
Std(c) ==
  \E r \in {std(this, heap)} :
    /\ this' = r.this
    /\ heap' = Collect(r.heap, Live(r.this, c))
    /\ ret'  = Log(c, "std", r.val)

\* stats.median
Median(c) ==
  \E r \in {median(this, heap)} :
    /\ this' = r.this
    /\ heap' = Collect(r.heap, Live(r.this, c))
    /\ ret'  = Log(c, "median", r.val)

\* stats.mode
Mode(c) ==
  \E r \in {mode(this, heap)} :
    /\ this' = r.this
    /\ heap' = Collect(r.heap, Live(r.this, c))
    /\ ret'  = Log(c, "mode", r.val)

\* the caller overwrites one element of an array it kept, or removes the last
Mutate ==
  \E cell \in {"x", "y"} :
    /\ Len(heap[cell]) >= 1
    /\ \/ \E i \in 1..Len(heap[cell]), v \in Values :
            /\ v # heap[cell][i]
            /\ heap' = [heap EXCEPT ![cell][i] = v]
       \/ heap' = [heap EXCEPT ![cell] = SubSeq(heap[cell], 1, Len(heap[cell]) - 1)]
    /\ this' = this
    /\ ret' = [op |-> "mutate", val |-> <<>>]

\* stats.getQuantile(p)
GetQuantileCall(p, c) ==
  \E r \in {getQuantile(this, heap, p)} :
    /\ this' = r.this
    /\ heap' = Collect(r.heap, Live(r.this, c))
    /\ ret'  = IF c.log THEN [op |-> "getQuantile", arg |-> p, val |-> r.val] ELSE ret

GetQuantile(c) == \E p \in Fractions : GetQuantileCall(p, c)

\* stats.fences
Fences(c) ==
  \E r \in {fences(this, heap)} :
    /\ this' = r.this
    /\ heap' = Collect(r.heap, Live(r.this, c))
    /\ ret'  = Log(c, "fences", r.val)

\* stats.geometricMean
GeometricMean(c) ==
  \E r \in {geometricMean(this, heap)} :
    /\ this' = r.this
    /\ heap' = Collect(r.heap, Live(r.this, c))
    /\ ret'  = Log(c, "geometricMean", r.val)

\* stats.harmonicMean
HarmonicMean(c) ==
  \E r \in {harmonicMean(this, heap)} :
    /\ this' = r.this
    /\ heap' = Collect(r.heap, Live(r.this, c))
    /\ ret'  = Log(c, "harmonicMean", r.val)

\* stats.cv
Cv(c) ==
  \E r \in {cv(this, heap)} :
    /\ this' = r.this
    /\ heap' = Collect(r.heap, Live(r.this, c))
    /\ ret'  = Log(c, "cv", r.val)

\* stats.skewness
Skewness(c) ==
  \E r \in {skewness(this, heap)} :
    /\ this' = r.this
    /\ heap' = Collect(r.heap, Live(r.this, c))
    /\ ret'  = Log(c, "skewness", r.val)

\* stats.kurtosis
Kurtosis(c) ==
  \E r \in {kurtosis(this, heap)} :
    /\ this' = r.this
    /\ heap' = Collect(r.heap, Live(r.this, c))
    /\ ret'  = Log(c, "kurtosis", r.val)

\* stats.getConfidenceInterval(w)
GetConfidenceIntervalCall(w, c) ==
  \E r \in {getConfidenceInterval(this, heap, w)} :
    /\ this' = r.this
    /\ heap' = Collect(r.heap, Live(r.this, c))
    /\ ret'  = Log(c, "getConfidenceInterval", r.val)

GetConfidenceInterval(c) == \E w \in Confidences : GetConfidenceIntervalCall(w, c)

\* stats.covarianceMatrix(x)
CovarianceMatrixCall(x, c) ==
  \E r \in {covarianceMatrix(this, heap, x)} :
    /\ this' = r.this
    /\ heap' = Collect(r.heap, Live(r.this, c))
    /\ ret'  = Log(c, "covarianceMatrix", r.val)

CovarianceMatrix(c) == \E x \in Matrices : CovarianceMatrixCall(x, c)

(***************************************************************************)
(* SpecCache: a caller that assigns and queries every cached statistic, in *)
(* any order, and looks at the engine instead of recording the returns     *)
(***************************************************************************)
NextCache ==
  \/ Assign(Silent)
  \/ Covariance(Silent)
  \/ Correlation(Silent)
  \/ Min(Silent)
  \/ Max(Silent)
  \/ Mean(Silent)
  \/ Std(Silent)
  \/ Median(Silent)
  \/ Mode(Silent)

SpecCache == Init /\ [][NextCache]_vars

(***************************************************************************)
(* Spec: a caller that records what each call returns                      *)
(***************************************************************************)
Next ==
  \/ Assign(Recorder)
  \/ Covariance(Recorder)
  \/ Correlation(Recorder)
  \/ Samples(Recorder)
  \/ Min(Recorder)
  \/ Max(Recorder)
  \/ Mean(Recorder)
  \/ Std(Recorder)

Spec == Init /\ [][Next]_vars

(***************************************************************************)
(* SpecAlias: a caller that keeps the arrays it passed and changes them    *)
(***************************************************************************)
NextAlias ==
  \/ Assign(Holder)
  \/ Covariance(Holder)
  \/ Correlation(Holder)
  \/ Mutate

SpecAlias == Init /\ [][NextAlias]_vars

(***************************************************************************)
(* SpecSummary: a new engine is assigned one sample (or none) and its      *)
(* caller queries the order statistics and the mode, recording the returns *)
(***************************************************************************)
InitSummary ==
  \E d \in SampleArrays :
    \E r \in {set_data(constructor, Pass(NewHeap, "x", [kind |-> "array", elems |-> d]), "x")} :
      /\ this = r.this
      /\ heap = Collect(r.heap, Live(r.this, Recorder))
      /\ ret  = [op |-> "data", val |-> r.val]

NextSummary ==
  \/ GetQuantile(Recorder)
  \/ FiveNumbers(Recorder)
  \/ Median(Recorder)
  \/ Mode(Recorder)

SpecSummary == InitSummary /\ [][NextSummary]_vars

(***************************************************************************)
(* SpecFrame: a new engine is assigned one sample (or none) and its caller *)
(* makes every query of the class, in any order                            *)
(***************************************************************************)
InitFrame ==
  \E d \in UNION {[1..n -> Values] : n \in 0..MaxSample} :
    \E r \in {set_data(constructor, Pass(NewHeap, "x", [kind |-> "array", elems |-> d]), "x")} :
      /\ this = r.this
      /\ heap = Collect(r.heap, Live(r.this, Silent))
      /\ ret  = [op |-> "data", val |-> r.val]

NextFrame ==
  \/ Min(Silent)
  \/ Max(Silent)
  \/ FiveNumbers(Silent)
  \/ Fences(Silent)
  \/ GetQuantile(Silent)
  \/ Mean(Silent)
  \/ GeometricMean(Silent)
  \/ HarmonicMean(Silent)
  \/ Std(Silent)
  \/ Cv(Silent)
  \/ Median(Silent)
  \/ Mode(Silent)
  \/ Skewness(Silent)
  \/ Kurtosis(Silent)
  \/ GetConfidenceInterval(Silent)
  \/ CovarianceMatrix(Silent)

SpecFrame == InitFrame /\ [][NextFrame]_vars

(***************************************************************************)
(* What the claims speak of                                                *)
(***************************************************************************)
\* the stored sample
Sample == heap[this._data]

\* what a query of each cached statistic returns from the engine t
Results(t, h) ==
  [min    |-> min(t, h).val,    max  |-> max(t, h).val,
   mean   |-> mean(t, h).val,   std  |-> std(t, h).val,
   median |-> median(t, h).val, mode |-> mode(t, h).val]

\* a freshly created engine assigned the sample d and nothing else
Fresh(d) == set_data(constructor, [NewHeap EXCEPT !["x"] = d], "x")
FreshResults(d) == Results(Fresh(d).this, Fresh(d).heap)

AllInvalidated(t) ==
  /\ t._minInvalidated /\ t._maxInvalidated /\ t._meanInvalidated
  /\ t._stdInvalidated /\ t._medianInvalidated /\ t._modeInvalidated

\* the flag of the cached statistic a query names
Flag(t, op) ==
  CASE op = "min"    -> t._minInvalidated
    [] op = "max"    -> t._maxInvalidated
    [] op = "mean"   -> t._meanInvalidated
    [] op = "std"    -> t._stdInvalidated
    [] op = "median" -> t._medianInvalidated
    [] op = "mode"   -> t._modeInvalidated

CachedOps == {"min", "max", "mean", "std", "median", "mode"}

\* the inputs the setter is specified to accept / to ignore
Accepted(p) == p.kind = "array" /\ Len(p.elems) >= 1
\* the pairs covariance and correlation are specified to accept
ValidPair(pq) ==
  /\ pq[1].kind = "array" /\ pq[2].kind = "array"
  /\ Len(pq[1].elems) = Len(pq[2].elems) /\ Len(pq[1].elems) >= 2

\* the heap as the method finds it when the caller has built the pair pq
PairHeap(pq) == Pass(Pass(heap, "x", pq[1]), "y", pq[2])
covarianceOf(pq)  == covariance(this, PairHeap(pq), Arg(pq[1], "x"), Arg(pq[2], "y"))
correlationOf(pq) == correlation(this, PairHeap(pq), Arg(pq[1], "x"), Arg(pq[2], "y"))

(***************************************************************************)
(* C1 (SpecCache): in every state reached by assignments (accepted or      *)
(* rejected), queries and covariance/correlation calls, a query of min,    *)
(* max, mean, std, median or mode returns what a fresh engine assigned     *)
(* only the stored sample returns: no query answers from an earlier sample.*)
(***************************************************************************)
C1_QueriesReflectStoredSample == Results(this, heap) = FreshResults(Sample)

\* a mean and a median cached for an earlier sample are still in the fields,
\* and the mode of the present sample has been cached since
C1_Witness ==
  /\ Len(Sample) >= 1
  /\ this._meanInvalidated /\ this._mean # Zero
  /\ <<this._mean>> # FreshResults(Sample).mean
  /\ this._medianInvalidated /\ <<this._median>> # FreshResults(Sample).median
  /\ this._median # Zero
  /\ ~this._modeInvalidated

(***************************************************************************)
(* C2 (Spec): after a query of a cached statistic on a non-empty sample    *)
(* the statistic's invalidation flag is false (it was recomputed and the   *)
(* flag cleared, or it was false already), so that the next query does not *)
(* recompute.                                                              *)
(***************************************************************************)
C2_FlagClearedByQuery ==
  (ret.op \in CachedOps /\ Len(Sample) >= 1) => ~Flag(this, ret.op)

(***************************************************************************)
(* C3 (SpecCache): from every reachable state, assigning an array of       *)
(* length >= 1 makes the sample count the array's length and leaves all    *)
(* six invalidation flags true.                                            *)
(***************************************************************************)
C3_AssignmentSetsCountAndFlags ==
  \A p \in Inputs :
    Accepted(p) =>
      \A r \in {set_data(this, Pass(heap, "x", p), Arg(p, "x"))} :
        /\ samples(r.this, r.heap).val = << <<Len(p.elems), 1>> >>
        /\ AllInvalidated(r.this)

\* all six flags are true again over fields that were all computed for an
\* earlier sample
C3_Witness ==
  /\ Len(Sample) = 2
  /\ AllInvalidated(this)
  /\ this._mean # Zero /\ this._median # Zero /\ this._mode # Zero
  /\ this._std # Zero /\ this._min # Zero /\ this._max # Zero
  /\ <<this._mean>> # FreshResults(Sample).mean

(***************************************************************************)
(* C4 (Spec): from every reachable state, assigning undefined, null or an  *)
(* empty array changes nothing: the object (its array reference, the six   *)
(* cached values, the six flags), the stored sample and its length are as  *)
(* before.                                                                 *)
(***************************************************************************)
C4_RejectedAssignmentIsNoOp ==
  \A p \in Inputs :
    ~Accepted(p) =>
      \A r \in {set_data(this, Pass(heap, "x", p), Arg(p, "x"))} :
        /\ r.this = this
        /\ r.heap[r.this._data] = Sample
        /\ samples(r.this, r.heap).val = samples(this, heap).val
        /\ r.val = <<>>

\* the last call was an assignment and the mean cached before it is still
\* valid: the assignment was a rejected one
C4_Witness ==
  /\ ret.op = "data"
  /\ Len(Sample) >= 1
  /\ ~this._meanInvalidated /\ ~this._stdInvalidated

(***************************************************************************)
(* C5 (SpecAlias): when the caller changes an array it passed to the       *)
(* setter, to covariance or to correlation, the stored sample stays as it  *)
(* was, and so does the result of every query.                             *)
(***************************************************************************)
C5_CallerMutationLeavesStore ==
  [][ret'.op = "mutate" =>
       /\ heap'[this'._data] = heap[this._data]
       /\ Results(this', heap') = Results(this, heap)
       /\ fiveNumbers(this', heap').val = fiveNumbers(this, heap).val
       /\ samples(this', heap').val = samples(this, heap).val]_vars

\* the caller has changed the array y it passed to covariance or correlation:
\* the store still holds a sample of that length with its mean cached
C5_Witness ==
  /\ ret.op = "mutate"
  /\ Len(Sample) = 2 /\ Len(heap["y"]) = 2
  /\ heap["y"] # Sample /\ heap["x"] # Sample
  /\ ~this._meanInvalidated

(***************************************************************************)
(* C6 (Spec): from every reachable state, covariance(x, y) and             *)
(* correlation(x, y) with arrays of one length >= 2 leave the store        *)
(* holding y's elements: the sample count is y's length and the six cached *)
(* queries return what a fresh engine assigned y returns.                  *)
(***************************************************************************)
C6_StoreHoldsYAfterAssociation ==
  \A pq \in PairInputs :
    ValidPair(pq) =>
      \A r \in {covarianceOf(pq), correlationOf(pq)} :
        /\ r.heap[r.this._data] = pq[2].elems
        /\ samples(r.this, r.heap).val = << <<Len(pq[2].elems), 1>> >>
        /\ Results(r.this, r.heap) = FreshResults(pq[2].elems)

\* a correlation call went through (it returned its quotient): the store
\* holds a sample of two values, its mean cached and its std in the field
C6_Witness ==
  /\ ret.op = "correlation" /\ Len(ret.val) = 2
  /\ Len(Sample) = 2
  /\ ~this._meanInvalidated
  /\ this._std # Zero /\ <<this._std>> = FreshResults(Sample).std

(***************************************************************************)
(* C7 (Spec): from every reachable state, covariance and correlation       *)
(* called with an absent or null input, with arrays of different lengths   *)
(* or of length < 2 return 0 and leave the object and the stored sample    *)
(* as they were.                                                           *)
(***************************************************************************)
C7_InvalidAssociationIsNoOp ==
  \A pq \in PairInputs :
    ~ValidPair(pq) =>
      \A r \in {covarianceOf(pq), correlationOf(pq)} :
        /\ r.val = <<Zero>>
        /\ r.this = this
        /\ r.heap[r.this._data] = Sample
        /\ r.heap["own"] = heap["own"]

\* covariance returned 0 over a store that still holds a one-value sample and
\* its cached mean: the call was a rejected one (an accepted one leaves a
\* sample of length >= 2)
C7_Witness ==
  /\ ret.op = "covariance" /\ ret.val = <<Zero>>
  /\ Len(Sample) = 1
  /\ ~this._meanInvalidated

C9_FiveNumbersEndsAreMinMax ==
  Len(Sample) >= 1 =>
    /\ <<fiveNumbers(this, heap).val[1]>> = min(this, heap).val
    /\ <<fiveNumbers(this, heap).val[5]>> = max(this, heap).val

(***************************************************************************)
(* C10 (SpecCache): for a stored sample of exactly one value v, std        *)
(* returns 0, min, max, mean, median and mode return v, and the five       *)
(* entries of the five-number summary are v.                               *)
(***************************************************************************)
C10_SingletonStatistics ==
  Len(Sample) = 1 =>
    /\ std(this, heap).val = <<Zero>>
    /\ min(this, heap).val = <<Sample[1]>>
    /\ max(this, heap).val = <<Sample[1]>>
    /\ mean(this, heap).val = <<Sample[1]>>
    /\ median(this, heap).val = <<Sample[1]>>
    /\ mode(this, heap).val = <<Sample[1]>>
    /\ fiveNumbers(this, heap).val = [i \in 1..5 |-> Sample[1]]

(***************************************************************************)
(* C11 (SpecCache): while the sample is empty (the engine was created and  *)
(* never successfully assigned; assignments of undefined, null and [] and  *)
(* rejected covariance/correlation calls may have come between), min, max, *)
(* mean, std, median and mode each return 0, whatever was queried before.  *)
(* No path of these getters throws on an empty array.  (std computes       *)
(* Math.sqrt(0/(-1)), the zero of negative sign, which equals 0.)          *)
(***************************************************************************)
C11_EmptySampleReturnsZero ==
  Len(Sample) = 0 =>
    \A op \in CachedOps : Results(this, heap)[op] = <<Zero>>

\* std has been queried on the empty engine (its flag is cleared) and the
\* sample is still empty
C11_Witness ==
  /\ Len(Sample) = 0
  /\ ~this._stdInvalidated
  /\ this._meanInvalidated /\ this._medianInvalidated /\ this._modeInvalidated

\* the number of occurrences of v in the sample d
Occurrences(d, v) == Cardinality({i \in 1..Len(d) : d[i] = v})

\* the place of the value the mode is specified to be: a most frequent value
\* at its first occurrence, before every other most frequent value
FirstMostFrequent(d) ==
  CHOOSE i \in 1..Len(d) :
    /\ \A j \in 1..Len(d) : Occurrences(d, d[j]) <= Occurrences(d, d[i])
    /\ \A j \in 1..(i - 1) : Occurrences(d, d[j]) < Occurrences(d, d[i])

(***************************************************************************)
(* C12 (SpecSummary): for every non-empty stored sample, mode returns a    *)
(* value of the sample that occurs most often, and among several such      *)
(* values the one that occurs first in the sample as it was assigned.      *)
(***************************************************************************)
C12_ModeIsFirstMostFrequent ==
  Len(Sample) >= 1 => mode(this, heap).val = <<Sample[FirstMostFrequent(Sample)]>>

\* the stored sample in ascending order, its least and its greatest value
Ascending == sort(Sample)
Least == Ascending[1]
Greatest == Ascending[Len(Sample)]

\* floor(1/p) for a fraction p > 0
FloorOfInverse(p) == p[2] \div p[1]

OutsideOpenInterval(p) ==
  isNaN(p) \/ ~(Less(<<1, 100>>, p) /\ Less(p, <<99, 100>>))
\* absent, NaN, or not inside the closed interval [0.01, 0.99]
OutsideClosedInterval(p) ==
  isNaN(p) \/ Less(p, <<1, 100>>) \/ Less(<<99, 100>>, p)

(***************************************************************************)
(* C14 as stated (SpecSummary): getQuantile(p) with p absent, NaN or not   *)
(* inside the open interval (0.01, 0.99), p = 0.01 and p = 0.99 included,  *)
(* returns what getQuantile(0.25) returns for the same sample.             *)
(***************************************************************************)
C14_OutsideOpenIntervalIsQuartiles ==
  \A p \in Fractions :
    OutsideOpenInterval(p) =>
      getQuantile(this, heap, p).val = getQuantile(this, heap, <<1, 4>>).val

(***************************************************************************)
(* C14 amended (SpecSummary): getQuantile(p) with p absent, NaN, below     *)
(* 0.01 or above 0.99 returns what getQuantile(0.25) returns for the same  *)
(* sample; p = 0.01 and p = 0.99 are fractions like any other: for a       *)
(* sample of two or more values they yield floor(1/p) + 1 = 101 and 2      *)
(* entries.                                                                *)
(***************************************************************************)
C14_OutsideClosedIntervalIsQuartiles ==
  /\ \A p \in Fractions :
       OutsideClosedInterval(p) =>
         getQuantile(this, heap, p).val = getQuantile(this, heap, <<1, 4>>).val
  /\ Len(Sample) >= 2 =>
       \A p \in {<<1, 100>>, <<99, 100>>} :
         Len(getQuantile(this, heap, p).val) = FloorOfInverse(p) + 1

\* getQuantile(0.995) has returned the five entries of the quartiles
C14_Witness ==
  /\ ret.op = "getQuantile" /\ ret.arg = <<199, 200>>
  /\ Len(Sample) >= 2
  /\ Len(ret.val) = 5

\* the reference position i of n: f[i] = i/(n-1)
Position(i, n) == Div(<<i, 1>>, <<n - 1, 1>>)

\* interior entry k of the quantiles of the ascending sample s at fraction p,
\* as specified
Interpolated(s, p, k) ==
  LET n == Len(s)
      q == Mul(<<k, 1>>, p)
      r == Mul(q, <<n - 1, 1>>)[1] \div Mul(q, <<n - 1, 1>>)[2]
      t == Div(Sub(q, Position(r, n)), Sub(Position(r + 1, n), Position(r, n)))
  IN  IF Lt(Sub(Position(r, n), q), <<1, 1000>>) /\ Lt(Sub(q, Position(r, n)), <<1, 1000>>)
      THEN s[r + 1]
      ELSE Add(Mul(Sub(One, t), s[r + 1]), Mul(t, s[r + 2]))

(***************************************************************************)
(* C15 (SpecSummary): for a stored sample of n >= 2 values, interior entry *)
(* k (1 <= k <= floor(1/p) - 1) of getQuantile(p) is the value at level    *)
(* q = k*p against the reference positions i/(n-1): sorted[r] within 0.001 *)
(* of a position, the linear interpolation between sorted[r] and           *)
(* sorted[r+1] otherwise; it is a number between the least and the         *)
(* greatest value of the sample.                                           *)
(***************************************************************************)
C15_InteriorEntriesInterpolate ==
  Len(Sample) >= 2 =>
    \A p \in Fractions :
      \A r \in {getQuantile(this, heap, p)} :
        \A k \in 1..(FloorOfInverse(fraction(p)) - 1) :
          /\ r.val[k + 1] = Interpolated(Ascending, fraction(p), k)
          /\ ~isNaN(r.val[k + 1])
          /\ ~Less(r.val[k + 1], Least) /\ ~Less(Greatest, r.val[k + 1])

\* the even/odd median rule, and the two halves of an ascending sample
RuleMedian(s) ==
  IF Len(s) % 2 = 0
  THEN Mul(Half, Add(s[Len(s) \div 2], s[Len(s) \div 2 + 1]))
  ELSE s[(Len(s) + 1) \div 2]
LowerHalf(s) ==
  IF Len(s) % 2 = 0 THEN SubSeq(s, 1, Len(s) \div 2) ELSE SubSeq(s, 1, (Len(s) + 1) \div 2)
UpperHalf(s) ==
  IF Len(s) % 2 = 0 THEN SubSeq(s, Len(s) \div 2 + 1, Len(s))
                    ELSE SubSeq(s, (Len(s) + 1) \div 2, Len(s))

(***************************************************************************)
(* C16 (SpecSummary): for a stored sample of n >= 2 values fiveNumbers     *)
(* returns [least, Q1, median, Q3, greatest] in this order, nondecreasing; *)
(* the third entry is what median returns; Q1 and Q3 are the even/odd-rule *)
(* medians of the lower and the upper half of the ascending sample, both   *)
(* halves holding the median element when n is odd, and the halves being   *)
(* the two sides of the midpoint when n is even.                           *)
(***************************************************************************)
C16_FiveNumbersOfHalves ==
  Len(Sample) >= 2 =>
    \A r \in {fiveNumbers(this, heap)} :
      /\ r.val = <<Least, RuleMedian(LowerHalf(Ascending)), RuleMedian(Ascending),
                   RuleMedian(UpperHalf(Ascending)), Greatest>>
      /\ \A i \in 1..4 : Le(r.val[i], r.val[i + 1])
      /\ <<r.val[3]>> = median(this, heap).val

\* fiveNumbers has returned for a sample of three values assigned out of
\* order, after median was queried: Q1 and Q3 lie strictly between the ends
\* and the median, so each half held the median element
C16_Witness ==
  /\ ret.op = "fiveNumbers"
  /\ Len(Sample) = 3 /\ Sample # Ascending
  /\ ~this._medianInvalidated
  /\ Lt(ret.val[1], ret.val[2]) /\ Lt(ret.val[2], ret.val[3])
  /\ Lt(ret.val[3], ret.val[4]) /\ Lt(ret.val[4], ret.val[5])

\* the cached value of the statistic a query names
Field(t, op) ==
  CASE op = "min"    -> t._min
    [] op = "max"    -> t._max
    [] op = "mean"   -> t._mean
    [] op = "std"    -> t._std
    [] op = "median" -> t._median
    [] op = "mode"   -> t._mode

\* the query of the cached statistic op, from the present state
CachedQuery(op) ==
  CASE op = "min"    -> min(this, heap)
    [] op = "max"    -> max(this, heap)
    [] op = "mean"   -> mean(this, heap)
    [] op = "std"    -> std(this, heap)
    [] op = "median" -> median(this, heap)
    [] op = "mode"   -> mode(this, heap)

\* the call r leaves the engine with the array it had, and every array as
\* it was: contents, length and order
SampleKept(r) == r.this._data = this._data /\ r.heap = heap

(***************************************************************************)
(* C17 (SpecFrame): from every reachable state, no query (min, max,        *)
(* fiveNumbers, fences, getQuantile, mean, geometricMean, harmonicMean,    *)
(* std, cv, median, mode, skewness, kurtosis, getConfidenceInterval,       *)
(* covarianceMatrix) changes the stored sample, and a query of one of the  *)
(* six cached statistics leaves the cached value and the flag of the other *)
(* five as they were.                                                      *)
(***************************************************************************)
C17_QueriesKeepSampleAndOtherCaches ==
  /\ \A op \in CachedOps :
       \A r \in {CachedQuery(op)} :
         /\ SampleKept(r)
         /\ \A o \in CachedOps \ {op} :
              Field(r.this, o) = Field(this, o) /\ Flag(r.this, o) = Flag(this, o)
  /\ SampleKept(fiveNumbers(this, heap))
  /\ SampleKept(fences(this, heap))
  /\ SampleKept(geometricMean(this, heap))
  /\ SampleKept(harmonicMean(this, heap))
  /\ SampleKept(cv(this, heap))
  /\ SampleKept(skewness(this, heap))
  /\ SampleKept(kurtosis(this, heap))
  /\ \A p \in Fractions : SampleKept(getQuantile(this, heap, p))
  /\ \A w \in Confidences : SampleKept(getConfidenceInterval(this, heap, w))
  /\ \A x \in Matrices : SampleKept(covarianceMatrix(this, heap, x))

\* a sample of four values that was assigned out of order is still in that
\* order after the median, the mode, the mean and the std were computed and
\* min and max were queried
C17_Witness ==
  /\ Len(Sample) = 4 /\ Sample # Ascending
  /\ ~this._medianInvalidated /\ ~this._modeInvalidated
  /\ ~this._meanInvalidated /\ ~this._stdInvalidated
  /\ this._min = Least /\ this._max = Greatest /\ Least # Greatest

=============================================================================
